---- MODULE Spec2Model ----
(***************************************************************************)
(* Slice filtering of ccanalyser (ccanalyser/tools/filter.py): the base    *)
(* pipeline executor SliceFilter and its three variants CCSliceFilter,     *)
(* TriCSliceFilter and TiledCSliceFilter.                                  *)
(*                                                                         *)
(* A slices DataFrame is a sequence of rows (records, one field per        *)
(* column) together with the set of columns it has.  Every filter method   *)
(* is an operator from tables to tables, computed as pandas computes it,   *)
(* and an action that replaces self.slices by its result.                  *)
(*                                                                         *)
(* Representation of values:                                               *)
(*   - the "coordinates" string "chrom:start-end" is the tuple             *)
(*     <<chrom, start, end>>; a "|"-joined string of coordinates is the    *)
(*     sequence of these tuples (the join is injective: no coordinate      *)
(*     holds a "|");                                                       *)
(*   - restriction_fragment is <<id>> for an assigned fragment and <<>>    *)
(*     for the "." sentinel;                                               *)
(*   - slice_name is the pair <<parent_read, slice>>.                      *)
(***************************************************************************)
EXTENDS Integers, Sequences, FiniteSets, TLC

\* ------------------------------------------------------------------ bounds
\* Largest number of rows of an input table.
MaxRows == 4
\* Largest number of rows of an input table that holds a defective slice.
MaxDefectRows == 3

\* ------------------------------------------------------- program constants
\* slice_stats fills an empty table with np.zeros((10,)).
ZeroFillRows == 10
\* Default of remove_multicapture_reporters(n_adjacent=1).
n_adjacent == 1

\* ------------------------------------------------------------ input values
\* Parent read names and chromosome names, in their sort order.
ParentReads == <<"r1", "r2", "r3">>
ChromOrder == <<"chr1", "chr2">>

NoFragment == <<>>

AllColumns ==
  {"slice_name", "parent_read", "pe", "mapped", "multimapped", "slice",
   "chrom", "start", "end", "capture", "capture_count", "exclusion",
   "exclusion_count", "blacklist", "restriction_fragment", "coordinates"}

\* An annotated slice before it is given a parent read and a slice number.
Kind(cap, cc, excl, ec, bl, mp, mm, re, chr, s, e, pe) ==
  [capture |-> cap, capture_count |-> cc, exclusion |-> excl,
   exclusion_count |-> ec, blacklist |-> bl, mapped |-> mp, multimapped |-> mm,
   restriction_fragment |-> re, chrom |-> chr, start |-> s, end |-> e, pe |-> pe]

\* Capture slices of probes A and B, a reporter on the restriction fragment
\* next to A's, one two fragments further, and one on another chromosome.
CapA == Kind("A", 1, ".", 0, 0, 1, 0, <<100>>, "chr1", 1000, 1250, "flashed")
CapB == Kind("B", 1, ".", 0, 0, 1, 0, <<200>>, "chr2", 1000, 1250, "flashed")
RepNear == Kind(".", 0, ".", 0, 0, 1, 0, <<101>>, "chr1", 1500, 1750, "flashed")
RepFar == Kind(".", 0, ".", 0, 0, 1, 0, <<103>>, "chr1", 2500, 2750, "flashed")
RepTrans == Kind(".", 0, ".", 0, 0, 1, 0, <<300>>, "chr2", 2500, 2750, "flashed")

CleanKinds == {CapA, CapB, RepNear, RepFar}

\* Slices an annotation can also produce: unmapped, in an exclusion region,
\* blacklisted, without a restriction fragment (reporter or capture), and a
\* slice counted as capture (capture_count > 0) that names no capture site.
DefectKinds ==
  { [RepTrans EXCEPT !.mapped = 0],
    [RepTrans EXCEPT !.exclusion = "A", !.exclusion_count = 1],
    [RepTrans EXCEPT !.blacklist = 1],
    [RepTrans EXCEPT !.restriction_fragment = NoFragment],
    [CapB EXCEPT !.restriction_fragment = NoFragment],
    [RepTrans EXCEPT !.capture_count = 1] }

\* A slice of capture site A on another chromosome: the site name is given
\* to regions of two chromosomes.
CapAChr2 == [CapA EXCEPT !.chrom = "chr2", !.restriction_fragment = <<400>>]

Unflashed(k) == [k EXCEPT !.pe = "unflashed"]

UnflashedKinds == {Unflashed(CapA), Unflashed(RepFar), Unflashed(RepTrans)}

\* The row of slice number i of parent read p made from kind k.
Row(p, i, k) ==
  [slice_name |-> <<p, i>>, parent_read |-> p, slice |-> i,
   pe |-> k.pe, mapped |-> k.mapped, multimapped |-> k.multimapped,
   chrom |-> k.chrom, start |-> k.start, end |-> k.end,
   capture |-> k.capture, capture_count |-> k.capture_count,
   exclusion |-> k.exclusion, exclusion_count |-> k.exclusion_count,
   blacklist |-> k.blacklist, restriction_fragment |-> k.restriction_fragment,
   coordinates |-> <<k.chrom, k.start, k.end>>]

\* Tables of n rows over the kinds K: the first s rows are the slices
\* 0..s-1 of the first parent read, the others the slices of the second.
TablesOf(K, n) ==
  IF n = 0 THEN {<< >>}
  ELSE { [i \in 1..n |->
            IF i <= s THEN Row(ParentReads[1], i - 1, ks[i])
                      ELSE Row(ParentReads[2], i - s - 1, ks[i])] :
           ks \in [1..n -> K], s \in 1..n }

\* Tables of a fragment of a capture slice and two reporters followed by a
\* fragment of two slices.
TripletTables ==
  { << Row(ParentReads[1], 0, CapA), Row(ParentReads[1], 1, RepNear),
       Row(ParentReads[1], 2, RepFar),
       Row(ParentReads[2], 0, ks[1]), Row(ParentReads[2], 1, ks[2]) >> :
      ks \in [1..2 -> CleanKinds] }

\* Tables of two fragments of a capture slice and a reporter, the capture
\* slices of one site on two chromosomes.
TwoChromosomeTables ==
  { << Row(ParentReads[1], 0, CapA), Row(ParentReads[1], 1, ks[1]),
       Row(ParentReads[2], 0, CapAChr2), Row(ParentReads[2], 1, ks[2]) >> :
      ks \in [1..2 -> {RepFar, RepTrans}] }

\* A capture slice of site A that two capture probes overlap.
CapATwoProbes == [CapA EXCEPT !.capture_count = 2]

\* Tables of one fragment: a capture slice that two probes overlap and two
\* more slices.
TwoProbeTables ==
  { << Row(ParentReads[1], 0, CapATwoProbes), Row(ParentReads[1], 1, ks[1]),
       Row(ParentReads[1], 2, ks[2]) >> :
      ks \in [1..2 -> CleanKinds] }

\* A reporter slice on the restriction fragment of the capture slice CapA.
RepOnCapFragment == [RepNear EXCEPT !.restriction_fragment = CapA.restriction_fragment]

\* Tables of one fragment: a reporter slice on the capture slice's
\* restriction fragment, then the capture slice, then one more slice.
SharedFragmentTables ==
  { << Row(ParentReads[1], 0, RepOnCapFragment), Row(ParentReads[1], 1, CapA),
       Row(ParentReads[1], 2, k) >> :
      k \in CleanKinds }

\* The reporter RepFar mapped from a later start to the same end, and RepFar
\* mapped to more than one place.
RepFarShifted == [RepFar EXCEPT !.start = 2400]
RepFarMultimapped == [RepFar EXCEPT !.multimapped = 1]

\* Tables of three fragments of a capture slice and a reporter: the first
\* two have the same coordinates and differ in read type or in multimapped,
\* the third is not combined by flash and ends where the others end.
DuplicateGroupTables ==
  { << Row(ParentReads[1], 0, CapA), Row(ParentReads[1], 1, RepFar),
       Row(ParentReads[2], 0, ks[1]), Row(ParentReads[2], 1, ks[2]),
       Row(ParentReads[3], 0, Unflashed(CapA)), Row(ParentReads[3], 1, Unflashed(k)) >> :
      ks \in { <<Unflashed(CapA), Unflashed(RepFar)>>, <<CapA, RepFarMultimapped>> },
      k \in {RepFar, RepFarShifted} }

\* The rows of t in the opposite order.
Reverse(t) == [i \in 1..Len(t) |-> t[Len(t) + 1 - i]]

\* Tables that are not in (parent_read, slice) order.
UnsortedTables ==
  { Reverse(t) : t \in UNION {TablesOf({CapA, RepFar}, n) : n \in 2..MaxDefectRows} }

InputTables ==
  UNION ( {TablesOf(K, n) : K \in {CleanKinds, UnflashedKinds}, n \in 0..MaxRows}
          \cup {TablesOf({CapA, RepFar, x}, n) :
                  x \in DefectKinds, n \in 0..MaxDefectRows}
          \cup {TripletTables, UnsortedTables, TwoChromosomeTables, TwoProbeTables,
                SharedFragmentTables, DuplicateGroupTables} )

\* A table of two fragments used for the inputs that lack a column.
SchemaTable ==
  << Row("r1", 0, CapA), Row("r1", 1, RepFar),
     Row("r2", 0, CapB), Row("r2", 1, RepTrans) >>

\* ---------------------------------------------------------- pandas helpers
\* A query or a boolean mask df[...] is SelectSeq: the rows that satisfy the
\* condition, in order.
RECURSIVE SumTo(_, _)
SumTo(col, n) == IF n = 0 THEN 0 ELSE col[n] + SumTo(col, n - 1)

\* Series.sum() of a column.
Sum(col) == SumTo(col, Len(col))

\* The column c of table t, as a sequence.
Col(t, c) == [i \in 1..Len(t) |-> t[i][c]]

\* Series.nunique() of a column.
nunique(col) == Cardinality({col[i] : i \in 1..Len(col)})

\* df[df["parent_read"].isin(parents)].
isin_parent_read(t, parents) == SelectSeq(t, LAMBDA r : r.parent_read \in parents)

RankIn(order, x) == CHOOSE i \in 1..Len(order) : order[i] = x

LexLess(a, b) ==
  \E i \in 1..Len(a) :
    /\ a[i] < b[i]
    /\ \A j \in 1..(i - 1) : a[j] = b[j]

\* sort_values: a stable sort of t by key, key[i] the tuple of sort keys of
\* row i.
StableSort(t, key) ==
  LET n == Len(t)
      pos(i) == 1 + Cardinality({j \in 1..n :
                      \/ LexLess(key[j], key[i])
                      \/ (key[j] = key[i] /\ j < i)})
  IN [p \in 1..n |-> t[CHOOSE i \in 1..n : pos(i) = p]]

\* self.slices = slices, without sort_values.
sort_values_parent_read_slice_omitted(t) == t

\* slices.sort_values(["parent_read", "slice"]) of SliceFilter.__init__.
sort_values_parent_read_slice(t) ==
  StableSort(t, [i \in 1..Len(t) |->
                   <<RankIn(ParentReads, t[i].parent_read), t[i].slice>>])

\* slices.sort_values(["parent_read", "chrom", "start"]) of fragments.
sort_values_parent_read_chrom_start(t) ==
  StableSort(t, [i \in 1..Len(t) |->
                   <<RankIn(ParentReads, t[i].parent_read),
                     RankIn(ChromOrder, t[i].chrom), t[i].start>>])

\* The keys of groupby("parent_read", sort=False): the parent reads of t in
\* order of first appearance.
GroupKeys(t) ==
  LET first == SelectSeq([i \in 1..Len(t) |-> i],
                    LAMBDA i : \A j \in 1..(i - 1) :
                                 t[j].parent_read # t[i].parent_read)
  IN [g \in 1..Len(first) |-> t[first[g]].parent_read]

Group(t, p) == SelectSeq(t, LAMBDA r : r.parent_read = p)

\* drop_duplicates(subset=..., keep="first"): the rows of t whose key, key[i]
\* for row i, is not the key of an earlier row.
drop_duplicates(t, key) ==
  LET idx == SelectSeq([i \in 1..Len(t) |-> i],
                       LAMBDA i : \A j \in 1..(i - 1) : key[j] # key[i])
  IN [g \in 1..Len(idx) |-> t[idx[g]]]

\* t[t.duplicated(subset=...)]: the rows of t whose key, key[i] for row i,
\* is the key of an earlier row.
duplicated(t, key) ==
  LET idx == SelectSeq([i \in 1..Len(t) |-> i],
                       LAMBDA i : \E j \in 1..(i - 1) : key[j] = key[i])
  IN [g \in 1..Len(idx) |-> t[idx[g]]]

\* The outcomes of DataFrame.sample(frac=1): every order of the rows.
Permutations_(n) ==
  {p \in [1..n -> 1..n] : \A i, j \in 1..n : p[i] = p[j] => i = j}

\* ---------------------------------------------------------------- variants
Variants == {"CCSliceFilter", "TriCSliceFilter", "TiledCSliceFilter"}

\* CCSliceFilter.fragments (inherited by TriCSliceFilter).
CCSliceFilter_fragments(t) ==
  LET sorted == sort_values_parent_read_chrom_start(t)
      keys == GroupKeys(sorted)
      agg(p) ==
        LET g == Group(sorted, p)
            capture_count == Sum(Col(g, "capture_count"))
            mapped == Sum(Col(g, "mapped"))
            exclusion_count == Sum(Col(g, "exclusion_count"))
            blacklist == Sum(Col(g, "blacklist"))
        IN [parent_read |-> p,
            unique_slices |-> nunique(Col(g, "slice")),
            pe |-> g[1].pe,
            mapped |-> mapped,
            multimapped |-> Sum(Col(g, "multimapped")),
            unique_capture_sites |-> nunique(Col(g, "capture")) - 1,
            capture_count |-> capture_count,
            unique_exclusion_sites |-> nunique(Col(g, "exclusion")) - 1,
            exclusion_count |-> exclusion_count,
            unique_restriction_fragments |->
              nunique(Col(g, "restriction_fragment")),
            blacklisted_slices |-> blacklist,
            coordinates |-> Col(g, "coordinates"),
            reporter_count |->
              IF capture_count > 0
              THEN mapped - (exclusion_count + capture_count + blacklist)
              ELSE 0]
  IN [i \in 1..Len(keys) |-> agg(keys[i])]

\* TiledCSliceFilter.fragments.
TiledCSliceFilter_fragments(t) ==
  LET sorted == sort_values_parent_read_chrom_start(t)
      keys == GroupKeys(sorted)
      agg(p) ==
        LET g == Group(sorted, p)
        IN [parent_read |-> p,
            unique_slices |-> nunique(Col(g, "slice")),
            pe |-> g[1].pe,
            mapped |-> Sum(Col(g, "mapped")),
            multimapped |-> Sum(Col(g, "multimapped")),
            capture_count |-> Sum(Col(g, "capture_count")),
            unique_restriction_fragments |->
              nunique(Col(g, "restriction_fragment")),
            blacklisted_slices |-> Sum(Col(g, "blacklist")),
            coordinates |-> Col(g, "coordinates")]
  IN [i \in 1..Len(keys) |-> agg(keys[i])]

\* self.fragments of the variant v.
fragments(v, t) ==
  IF v = "TiledCSliceFilter" THEN TiledCSliceFilter_fragments(t)
  ELSE CCSliceFilter_fragments(t)

\* fragments["parent_read"] as a set.
ParentsOf(frags) == {frags[i].parent_read : i \in 1..Len(frags)}

\* ------------------------------------------------- shared filter operations
get_raw_slices(t) == t

remove_unmapped_slices(t) == SelectSeq(t, LAMBDA r : r.mapped = 1)

\* query("unique_slices > 0") in place of "unique_slices > 1".
remove_orphan_slices_gt_zero(v, t) ==
  LET fragments_multislice ==
        SelectSeq(fragments(v, t), LAMBDA f : f.unique_slices > 0)
  IN isin_parent_read(t, ParentsOf(fragments_multislice))

remove_orphan_slices(v, t) ==
  LET fragments_multislice ==
        SelectSeq(fragments(v, t), LAMBDA f : f.unique_slices > 1)
  IN isin_parent_read(t, ParentsOf(fragments_multislice))

\* drop_duplicates(..., keep="last") in place of the default keep="first".
remove_duplicate_re_frags_keep_last(t) ==
  LET key == [i \in 1..Len(t) |-> <<t[i].parent_read, t[i].restriction_fragment>>]
  IN SelectSeq(t, LAMBDA r :
       \A j \in 1..Len(t) :
         (key[j] = <<r.parent_read, r.restriction_fragment>>) => t[j].slice <= r.slice)

remove_duplicate_re_frags(t) ==
  drop_duplicates(t, [i \in 1..Len(t) |->
                        <<t[i].parent_read, t[i].restriction_fragment>>])

remove_slices_without_re_frag_assigned(t) ==
  SelectSeq(t, LAMBDA r : r.restriction_fragment # NoFragment)

\* drop_duplicates(subset="coordinates", keep=False) in place of
\* keep="first": every member of a duplicate group is dropped.
remove_duplicate_slices_keep_false(v, t, perm) ==
  LET frags == fragments(v, t)
      sample == [i \in 1..Len(frags) |-> frags[perm[i]]]
      idx == SelectSeq([i \in 1..Len(sample) |-> i],
                  LAMBDA i : \A j \in 1..Len(sample) :
                               j # i => sample[j].coordinates # sample[i].coordinates)
  IN isin_parent_read(t, {sample[i].parent_read : i \in {idx[g] : g \in 1..Len(idx)}})

\* perm is the outcome of fragments.sample(frac=1): row i of the sample is
\* row perm[i] of fragments.
remove_duplicate_slices(v, t, perm) ==
  LET frags == fragments(v, t)
      sample == [i \in 1..Len(frags) |-> frags[perm[i]]]
      frags_deduplicated == drop_duplicates(sample, Col(sample, "coordinates"))
  IN isin_parent_read(t, ParentsOf(frags_deduplicated))

\* The number of rows whose pe contains "unflashed".
CountUnflashed(t) == Len(SelectSeq(t, LAMBDA r : r.pe = "unflashed"))

\* str.split("|").str[0].str.split(":|-").str[1] of a coordinates string.
read_start(f) == f.coordinates[1][2]

\* str.split("|").str[-1].str.split(":|-").str[-1] of a coordinates string.
read_end(f) == f.coordinates[Len(f.coordinates)][3]

remove_duplicate_slices_pe(v, t) ==
  IF CountUnflashed(t) > 1
  THEN LET fragments_pe ==
             SelectSeq(fragments(v, t), LAMBDA f : f.pe = "unflashed")
           fragments_pe_duplicated ==
             duplicated(fragments_pe,
                        [i \in 1..Len(fragments_pe) |->
                           <<read_start(fragments_pe[i]), read_end(fragments_pe[i])>>])
       IN SelectSeq(t, LAMBDA r : r.parent_read \notin ParentsOf(fragments_pe_duplicated))
  ELSE t

remove_excluded_slices(t) == SelectSeq(t, LAMBDA r : r.exclusion_count < 1)

\* The blacklist flag of the rows cleared in place of the rows dropped.
remove_blacklisted_slices_clear_flag(t) ==
  [i \in 1..Len(t) |-> [t[i] EXCEPT !.blacklist = 0]]

remove_blacklisted_slices(t) == SelectSeq(t, LAMBDA r : r.blacklist < 1)

\* ------------------------------------------------ CCSliceFilter operations
reporters(t) == SelectSeq(t, LAMBDA r : r.capture = ".")

captures(t) == SelectSeq(t, LAMBDA r : ~(r.capture = "."))

\* The value of a reporter_ column in a row of the join that has no reporter.
NaN == "NaN"

\* captures.join(reporters) on the index parent_read: for every capture
\* slice, in order, one row per reporter slice of its parent read, or one
\* row of NaN reporter columns when there is none.
RECURSIVE join(_, _)
join(caps, reps) ==
  IF caps = << >> THEN << >>
  ELSE LET c == Head(caps)
           m == SelectSeq(reps, LAMBDA r : r.parent_read = c.parent_read)
           row(name, chrom) ==
             [parent_read |-> c.parent_read, capture |-> c.capture,
              capture_slice_name |-> c.slice_name, capture_chrom |-> c.chrom,
              reporter_slice_name |-> name, reporter_chrom |-> chrom]
       IN (IF m = << >> THEN << row(<< >>, NaN) >>
           ELSE [i \in 1..Len(m) |-> row(m[i].slice_name, m[i].chrom)])
          \o join(Tail(caps), reps)

\* The join without dropna(axis=0, how="any").
merged_captures_and_reporters_no_dropna(t) == join(captures(t), reporters(t))

\* CCSliceFilter.merged_captures_and_reporters.
merged_captures_and_reporters(t) ==
  SelectSeq(join(captures(t), reporters(t)), LAMBDA row : row.reporter_chrom # NaN)

\* CCSliceFilter.cis_or_trans_stats: the rows (capture, cis/trans, count) of
\* groupby("capture")["cis/trans"].value_counts(), one per pair met.
CCSliceFilter_cis_or_trans_stats(t) ==
  LET cap_and_rep == merged_captures_and_reporters(t)
      cis_trans(row) ==
        IF row.capture_chrom = row.reporter_chrom THEN "cis" ELSE "trans"
      n(c, k) == Len(SelectSeq(cap_and_rep,
                       LAMBDA row : row.capture = c /\ cis_trans(row) = k))
  IN { [capture |-> c, cis_trans |-> k, count |-> n(c, k)] :
         <<c, k>> \in { <<cap_and_rep[i].capture, cis_trans(cap_and_rep[i])>> :
                          i \in 1..Len(cap_and_rep) } }

\* query("reporter_count >= 0") in place of "reporter_count > 0".
remove_non_reporter_fragments_ge_zero(t) ==
  LET frags_reporter ==
        SelectSeq(CCSliceFilter_fragments(t), LAMBDA f : f.reporter_count >= 0)
  IN isin_parent_read(t, ParentsOf(frags_reporter))

remove_non_reporter_fragments(t) ==
  LET frags_reporter ==
        SelectSeq(CCSliceFilter_fragments(t), LAMBDA f : f.reporter_count > 0)
  IN isin_parent_read(t, ParentsOf(frags_reporter))

remove_multi_capture_fragments(t) ==
  LET frags_capture ==
        SelectSeq(CCSliceFilter_fragments(t),
             LAMBDA f : 0 < f.unique_capture_sites /\ f.unique_capture_sites < 2)
  IN isin_parent_read(t, ParentsOf(frags_capture))

\* range(-n_adjacent, n_adjacent) in place of range(-n_adjacent,
\* n_adjacent + 1): the fragment after the capture's is not excluded.
excluded_fragments_open_range(t, n) ==
  LET caps == SelectSeq(t, LAMBDA r : ~(r.capture = "."))
      re_frags == {caps[i].restriction_fragment : i \in 1..Len(caps)}
  IN {<<frag[1] + modifier>> : frag \in re_frags, modifier \in (-n)..(n - 1)}

\* [frag + modifier for frag in re_frags
\*                  for modifier in range(-n_adjacent, n_adjacent + 1)]
excluded_fragments(t, n) ==
  LET caps == captures(t)
      re_frags == {caps[i].restriction_fragment : i \in 1..Len(caps)}
  IN {<<frag[1] + modifier>> : frag \in re_frags, modifier \in (-n)..n}

remove_multicapture_reporters(t, n) ==
  SelectSeq(t, LAMBDA r : \/ r.capture_count > 0
                     \/ r.restriction_fragment \notin excluded_fragments(t, n))

\* ---------------------------------------------- TriCSliceFilter operations
\* query("reporter_count > 0") in place of "reporter_count > 1".
remove_slices_with_one_reporter_gt_zero(t) ==
  LET fragments_triplets ==
        SelectSeq(CCSliceFilter_fragments(t), LAMBDA f : f.reporter_count > 0)
  IN isin_parent_read(t, ParentsOf(fragments_triplets))

remove_slices_with_one_reporter(t) ==
  LET fragments_triplets ==
        SelectSeq(CCSliceFilter_fragments(t), LAMBDA f : f.reporter_count > 1)
  IN isin_parent_read(t, ParentsOf(fragments_triplets))

\* -------------------------------------------- TiledCSliceFilter operations
remove_non_capture_fragments(t) ==
  LET fragments_with_capture ==
        SelectSeq(TiledCSliceFilter_fragments(t), LAMBDA f : f.capture_count > 0)
  IN isin_parent_read(t, ParentsOf(fragments_with_capture))

\* The index of the boolean Series multicapture_fragments: the parent reads
\* with a slice whose capture is not ".".
multicapture_index(t) ==
  {t[i].parent_read : i \in {j \in 1..Len(t) : t[j].capture # "."}}

\* nunique over every slice of p, without query('capture != "."'): the
\* "." of a reporter counts as a capture site.
multicapture_fragments_with_sentinel(t, p) ==
  nunique(Col(Group(t, p), "capture")) > 1

\* multicapture_fragments[p]: more than one distinct capture in the slices
\* of p whose capture is not ".".
multicapture_fragments(t, p) ==
  nunique(Col(SelectSeq(Group(t, p), LAMBDA r : r.capture # "."), "capture")) > 1

\* .loc with the parent read of every kept row as a list of labels, in place
\* of the boolean mask: every label selects all the rows of its parent read.
RECURSIVE loc_labels(_, _)
loc_labels(t, labels) ==
  IF labels = << >> THEN << >>
  ELSE Group(t, Head(labels)) \o loc_labels(t, Tail(labels))

remove_dual_capture_fragments_by_label(t) ==
  loc_labels(t, Col(SelectSeq(t, LAMBDA r : ~multicapture_fragments(t, r.parent_read)),
                    "parent_read"))

remove_dual_capture_fragments(t) ==
  SelectSeq(t, LAMBDA r : ~multicapture_fragments(t, r.parent_read))

\* TiledCSliceFilter.cis_or_trans_stats: a row (capture, cis/trans, count)
\* for cis and for trans of every capture site of the table.
TiledCSliceFilter_cis_or_trans_stats(t) ==
  LET with_capture == SelectSeq(t, LAMBDA r : r.capture # ".")
      interactions(capture_site) ==
        LET df_cap == SelectSeq(with_capture, LAMBDA r : r.capture = capture_site)
            capture_chrom == df_cap[1].chrom
            df_primary_capture ==
              {Group(df_cap, p)[1].slice_name : p \in ParentsOf(df_cap)}
            df_not_primary_capture ==
              SelectSeq(df_cap, LAMBDA r : r.slice_name \notin df_primary_capture)
            df_outside_capture ==
              SelectSeq(SelectSeq(t, LAMBDA r : r.capture = "."),
                        LAMBDA r : r.parent_read \in ParentsOf(df_cap))
            df_pseudo_reporters == df_not_primary_capture \o df_outside_capture
            n_cis_interactions ==
              Len(SelectSeq(df_pseudo_reporters, LAMBDA r : r.chrom = capture_chrom))
        IN [cis |-> n_cis_interactions,
            trans |-> Len(df_pseudo_reporters) - n_cis_interactions]
  IN { [capture |-> c, cis_trans |-> k, count |-> interactions(c)[k]] :
         c \in {with_capture[i].capture : i \in 1..Len(with_capture)},
         k \in {"cis", "trans"} }

\* ------------------------------------------------------------- statistics
\* The column c of the table slice_stats aggregates: the column of t, or,
\* for CCSliceFilter on an empty table, np.zeros((10,)).
StatsCol(zero_fill, t, c) ==
  IF zero_fill /\ Len(t) = 0 THEN [i \in 1..ZeroFillRows |-> 0] ELSE Col(t, c)

\* lambda col: (col > 0).sum()
CountPositive(col) == Cardinality({i \in 1..Len(col) : col[i] > 0})

\* CCSliceFilter.slice_stats (inherited by TriCSliceFilter).
CCSliceFilter_slice_stats(t) ==
  [unique_slices |-> nunique(StatsCol(TRUE, t, "slice_name")),
   unique_fragments |-> nunique(StatsCol(TRUE, t, "parent_read")),
   mapped |-> Sum(StatsCol(TRUE, t, "mapped")),
   multimapping_slices |-> Sum(StatsCol(TRUE, t, "multimapped")),
   unique_capture_sites |-> nunique(StatsCol(TRUE, t, "capture")),
   number_of_capture_slices |-> CountPositive(StatsCol(TRUE, t, "capture_count")),
   number_of_slices_in_exclusion_region |->
     CountPositive(StatsCol(TRUE, t, "exclusion_count")),
   number_of_slices_in_blacklisted_region |-> Sum(StatsCol(TRUE, t, "blacklist"))]

\* TiledCSliceFilter.slice_stats.
TiledCSliceFilter_slice_stats(t) ==
  [unique_slices |-> nunique(StatsCol(FALSE, t, "slice_name")),
   unique_fragments |-> nunique(StatsCol(FALSE, t, "parent_read")),
   mapped |-> Sum(StatsCol(FALSE, t, "mapped")),
   multimapping_slices |-> Sum(StatsCol(FALSE, t, "multimapped")),
   number_of_capture_slices |-> CountPositive(StatsCol(FALSE, t, "capture_count")),
   number_of_slices_in_blacklisted_region |-> Sum(StatsCol(FALSE, t, "blacklist"))]

slice_stats(v, t) ==
  IF v = "TiledCSliceFilter" THEN TiledCSliceFilter_slice_stats(t)
  ELSE CCSliceFilter_slice_stats(t)

\* The columns slice_stats aggregates.
slice_stats_columns(v) ==
  IF v = "TiledCSliceFilter"
  THEN {"slice_name", "parent_read", "mapped", "multimapped", "capture_count",
        "blacklist"}
  ELSE {"slice_name", "parent_read", "mapped", "multimapped", "capture",
        "capture_count", "exclusion_count", "blacklist"}

\* ------------------------------------------------------------ filter stages
Stage(name, filters) == [stage |-> name, filters |-> filters]

\* The stage duplicate_filtered without its last filter,
\* remove_non_reporter_fragments.
CCSliceFilter_filter_stages_no_last_filter ==
  << Stage("pre-filtering", <<"get_raw_slices">>),
     Stage("mapped", <<"remove_unmapped_slices">>),
     Stage("contains_single_capture",
           <<"remove_orphan_slices", "remove_multi_capture_fragments">>),
     Stage("contains_capture_and_reporter",
           <<"remove_excluded_slices", "remove_blacklisted_slices",
             "remove_non_reporter_fragments", "remove_multicapture_reporters">>),
     Stage("duplicate_filtered",
           <<"remove_slices_without_re_frag_assigned", "remove_duplicate_re_frags",
             "remove_duplicate_slices", "remove_duplicate_slices_pe">>) >>

CCSliceFilter_filter_stages ==
  << Stage("pre-filtering", <<"get_raw_slices">>),
     Stage("mapped", <<"remove_unmapped_slices">>),
     Stage("contains_single_capture",
           <<"remove_orphan_slices", "remove_multi_capture_fragments">>),
     Stage("contains_capture_and_reporter",
           <<"remove_excluded_slices", "remove_blacklisted_slices",
             "remove_non_reporter_fragments", "remove_multicapture_reporters">>),
     Stage("duplicate_filtered",
           <<"remove_slices_without_re_frag_assigned", "remove_duplicate_re_frags",
             "remove_duplicate_slices", "remove_duplicate_slices_pe",
             "remove_non_reporter_fragments">>) >>

TriCSliceFilter_filter_stages ==
  << Stage("pre-filtering", <<"get_raw_slices">>),
     Stage("mapped",
           <<"remove_unmapped_slices", "remove_slices_without_re_frag_assigned">>),
     Stage("contains_single_capture",
           <<"remove_orphan_slices", "remove_multi_capture_fragments">>),
     Stage("contains_capture_and_reporter",
           <<"remove_blacklisted_slices", "remove_non_reporter_fragments">>),
     Stage("duplicate_filtered",
           <<"remove_duplicate_re_frags", "remove_duplicate_slices",
             "remove_duplicate_slices_pe", "remove_non_reporter_fragments">>),
     Stage("tric_reporter", <<"remove_slices_with_one_reporter">>) >>

\* The filters of the stage "mapped" in the other order.
TiledCSliceFilter_filter_stages_swapped ==
  << Stage("pre-filtering", <<"get_raw_slices">>),
     Stage("mapped", <<"remove_orphan_slices", "remove_unmapped_slices">>),
     Stage("not_blacklisted", <<"remove_blacklisted_slices">>),
     Stage("contains_capture",
           <<"remove_non_capture_fragments", "remove_dual_capture_fragments">>),
     Stage("duplicate_filtered",
           <<"remove_slices_without_re_frag_assigned", "remove_duplicate_re_frags",
             "remove_duplicate_slices", "remove_duplicate_slices_pe">>),
     Stage("has_reporter", <<"remove_orphan_slices">>) >>

TiledCSliceFilter_filter_stages ==
  << Stage("pre-filtering", <<"get_raw_slices">>),
     Stage("mapped", <<"remove_unmapped_slices", "remove_orphan_slices">>),
     Stage("not_blacklisted", <<"remove_blacklisted_slices">>),
     Stage("contains_capture",
           <<"remove_non_capture_fragments", "remove_dual_capture_fragments">>),
     Stage("duplicate_filtered",
           <<"remove_slices_without_re_frag_assigned", "remove_duplicate_re_frags",
             "remove_duplicate_slices", "remove_duplicate_slices_pe">>),
     Stage("has_reporter", <<"remove_orphan_slices">>) >>

\* The filter_stages argument of a constructor: None, an empty dict, or a
\* mapping of the caller.
StagesArgs == {"None", "empty", "given"}

\* The mapping a caller gives to SliceFilter: one stage of one shared filter.
GivenStages == << Stage("mapped", <<"remove_unmapped_slices">>) >>

\* The value of the argument arg; None and {} are both false in
\* "if filter_stages:".
StagesOf(arg) == IF arg = "given" THEN GivenStages ELSE << >>

\* self.filter_stages: the default mapping of a variant constructed without
\* a stage mapping, the caller's mapping for SliceFilter itself.
filter_stages(v) ==
  CASE v = "CCSliceFilter" -> CCSliceFilter_filter_stages
    [] v = "TriCSliceFilter" -> TriCSliceFilter_filter_stages
    [] v = "TiledCSliceFilter" -> TiledCSliceFilter_filter_stages
    [] v = "SliceFilter" -> GivenStages

\* ------------------------------------------------------------------ errors
NoError == [type |-> "none", arg |-> ""]

Error(type, arg) == [type |-> type, arg |-> arg]

\* The list checked by SliceFilter._check_required_columns_present.
columns_required ==
  << "slice_name", "parent_read", "pe", "mapped", "multimapped", "slice",
     "chrom", "start", "end", "capture", "capture_count", "exclusion",
     "blacklist", "coordinates" >>

\* _check_required_columns_present: the KeyError of the first required
\* column that is not in the table, or no error.
check_required_columns_present(cols) ==
  LET missing == {i \in 1..Len(columns_required) : columns_required[i] \notin cols}
  IN IF missing = {} THEN NoError
     ELSE Error("KeyError",
                columns_required[CHOOSE i \in missing : \A j \in missing : i <= j])

\* The columns the fragments property of v aggregates.
fragments_columns(v) ==
  IF v = "TiledCSliceFilter"
  THEN {"parent_read", "chrom", "start", "slice", "pe", "mapped", "multimapped",
        "capture_count", "restriction_fragment", "blacklist", "coordinates"}
  ELSE {"parent_read", "chrom", "start", "slice", "pe", "mapped", "multimapped",
        "capture", "capture_count", "exclusion", "exclusion_count",
        "restriction_fragment", "blacklist", "coordinates"}

\* The columns the filter f of variant v reads on table t.
columns_read(v, f, t) ==
  CASE f = "get_raw_slices" -> {}
    [] f = "remove_unmapped_slices" -> {"mapped"}
    [] f = "remove_orphan_slices" -> fragments_columns(v)
    [] f = "remove_duplicate_re_frags" -> {"parent_read", "restriction_fragment"}
    [] f = "remove_slices_without_re_frag_assigned" -> {"restriction_fragment"}
    [] f = "remove_duplicate_slices" -> fragments_columns(v)
    [] f = "remove_duplicate_slices_pe" ->
         IF CountUnflashed(t) > 1 THEN fragments_columns(v) ELSE {"pe"}
    [] f = "remove_excluded_slices" -> {"exclusion_count"}
    [] f = "remove_blacklisted_slices" -> {"blacklist"}
    [] f = "remove_non_reporter_fragments" -> fragments_columns("CCSliceFilter")
    [] f = "remove_multi_capture_fragments" -> fragments_columns("CCSliceFilter")
    [] f = "remove_multicapture_reporters" ->
         {"capture", "restriction_fragment", "capture_count"}
    [] f = "remove_slices_with_one_reporter" -> fragments_columns("CCSliceFilter")
    [] f = "remove_non_capture_fragments" -> fragments_columns("TiledCSliceFilter")
    [] f = "remove_dual_capture_fragments" -> {"capture", "parent_read"}

\* The filters that only evaluate a query expression.
query_filters ==
  {"remove_unmapped_slices", "remove_slices_without_re_frag_assigned",
   "remove_excluded_slices", "remove_blacklisted_slices"}

\* The filters that read self.fragments on table t.
fragments_filters(t) ==
  {"remove_orphan_slices", "remove_duplicate_slices"}
    \cup (IF CountUnflashed(t) > 1 THEN {"remove_duplicate_slices_pe"} ELSE {})

\* The exception the filter f of variant v raises on table t with columns
\* cols, or no error:
\*  - SliceFilter itself does not implement fragments;
\*  - a column it reads is not in the table;
\*  - remove_multicapture_reporters adds an integer to the "." of a capture
\*    slice without restriction fragment;
\*  - remove_dual_capture_fragments indexes with a boolean Series that has
\*    no entry for a parent read of the table.
raises(v, f, t, cols) ==
  LET missing == columns_read(v, f, t) \ cols
      caps == captures(t)
  IN IF v = "SliceFilter" /\ f \in fragments_filters(t)
     THEN Error("NotImplementedError", "fragments")
     ELSE IF missing # {}
     THEN Error(IF f \in query_filters THEN "UndefinedVariableError" ELSE "KeyError",
                CHOOSE c \in missing : TRUE)
     ELSE IF /\ f = "remove_multicapture_reporters"
             /\ \E i \in 1..Len(caps) : caps[i].restriction_fragment = NoFragment
     THEN Error("TypeError", "restriction_fragment")
     ELSE IF /\ f = "remove_dual_capture_fragments"
             /\ \E i \in 1..Len(t) : t[i].parent_read \notin multicapture_index(t)
     THEN Error("IndexingError", "parent_read")
     ELSE NoError

\* The exception slice_stats raises, or no error: SliceFilter itself does
\* not implement it, the variants read columns.
slice_stats_raises(v, cols) ==
  LET missing == slice_stats_columns(v) \ cols
  IN IF v = "SliceFilter" THEN Error("NotImplementedError", "slice_stats")
     ELSE IF missing # {} THEN Error("KeyError", CHOOSE c \in missing : TRUE)
     ELSE NoError

\* getattr(self, filt)(): the tables the filter f can leave in self.slices.
call_filter(v, f, t) ==
  CASE f = "get_raw_slices" -> {get_raw_slices(t)}
    [] f = "remove_unmapped_slices" -> {remove_unmapped_slices(t)}
    [] f = "remove_orphan_slices" -> {remove_orphan_slices(v, t)}
    [] f = "remove_duplicate_re_frags" -> {remove_duplicate_re_frags(t)}
    [] f = "remove_slices_without_re_frag_assigned" ->
         {remove_slices_without_re_frag_assigned(t)}
    [] f = "remove_duplicate_slices" ->
         {remove_duplicate_slices(v, t, perm) :
            perm \in Permutations_(Len(fragments(v, t)))}
    [] f = "remove_duplicate_slices_pe" -> {remove_duplicate_slices_pe(v, t)}
    [] f = "remove_excluded_slices" -> {remove_excluded_slices(t)}
    [] f = "remove_blacklisted_slices" -> {remove_blacklisted_slices(t)}
    [] f = "remove_non_reporter_fragments" -> {remove_non_reporter_fragments(t)}
    [] f = "remove_multi_capture_fragments" -> {remove_multi_capture_fragments(t)}
    [] f = "remove_multicapture_reporters" ->
         {remove_multicapture_reporters(t, n_adjacent)}
    [] f = "remove_slices_with_one_reporter" ->
         {remove_slices_with_one_reporter(t)}
    [] f = "remove_non_capture_fragments" -> {remove_non_capture_fragments(t)}
    [] f = "remove_dual_capture_fragments" -> {remove_dual_capture_fragments(t)}

\* ------------------------------------------------------------------- state
VARIABLES
  input,          \* the caller's slices DataFrame (its rows)
  columns,        \* the columns of the caller's DataFrame
  variant,        \* the class constructed, "" before construction
  stages_arg,     \* the filter_stages argument it was constructed with
  slices,         \* self.slices
  stats,          \* self._filter_stats: one column per completed stage
  pc,             \* "new", "filtering", "done" or "error"
  stage,          \* position of filter_slices in self.filter_stages
  filt,           \* position of filter_slices in the filters of the stage
  error,          \* the exception raised, NoError if none
  last_filt,      \* the filter that returned last, "" if none
  before          \* self.slices when that filter was called

vars == <<input, columns, variant, stages_arg, slices, stats, pc, stage, filt,
          error, last_filt, before>>

Init ==
  /\ \/ /\ input \in InputTables
        /\ columns = AllColumns
     \/ /\ input = SchemaTable
        /\ columns \in {AllColumns \ {c} : c \in AllColumns}
  /\ variant = ""
  /\ stages_arg = "None"
  /\ slices = << >>
  /\ stats = << >>
  /\ pc = "new"
  /\ stage = 1
  /\ filt = 1
  /\ error = NoError
  /\ last_filt = ""
  /\ before = << >>

\* The mapping SliceFilter.__init__ receives when the class v is constructed
\* with the argument arg: a subclass replaces a false argument by its default
\* mapping before it calls super().__init__.
passed_stages(v, arg) ==
  IF v \in Variants /\ StagesOf(arg) = << >> THEN filter_stages(v)
  ELSE StagesOf(arg)

\* "if filter_stages is not None:" in place of "if filter_stages:": an
\* empty mapping is accepted.
SliceFilter_init_is_not_none(v, arg) ==
  /\ pc = "new"
  /\ variant' = v
  /\ stages_arg' = arg
  /\ LET e == check_required_columns_present(columns)
     IN IF e # NoError
        THEN /\ pc' = "error"
             /\ error' = e
             /\ UNCHANGED slices
        ELSE /\ slices' = sort_values_parent_read_slice(input)
             /\ IF v \in Variants \/ arg # "None"
                THEN /\ pc' = "filtering"
                     /\ UNCHANGED error
                ELSE /\ pc' = "error"
                     /\ error' = Error("ValueError", "Filter stages not provided")
  /\ UNCHANGED <<input, columns, stats, stage, filt, last_filt, before>>

\* SliceFilter.__init__ of an instance of class v constructed with the
\* filter_stages argument arg.
SliceFilter_init(v, arg) ==
  /\ pc = "new"
  /\ variant' = v
  /\ stages_arg' = arg
  /\ LET e == check_required_columns_present(columns)
     IN IF e # NoError
        THEN /\ pc' = "error"
             /\ error' = e
             /\ UNCHANGED slices
        ELSE /\ slices' = sort_values_parent_read_slice(input)
             /\ IF passed_stages(v, arg) # << >>
                THEN /\ pc' = "filtering"
                     /\ UNCHANGED error
                ELSE /\ pc' = "error"
                     /\ error' = Error("ValueError", "Filter stages not provided")
  /\ UNCHANGED <<input, columns, stats, stage, filt, last_filt, before>>

\* SliceFilter(slices, filter_stages) constructed directly.
SliceFilter_direct_init == \E arg \in StagesArgs : SliceFilter_init("SliceFilter", arg)

CCSliceFilter_init == SliceFilter_init("CCSliceFilter", "None")

TriCSliceFilter_init == SliceFilter_init("TriCSliceFilter", "None")

TiledCSliceFilter_init == SliceFilter_init("TiledCSliceFilter", "None")

\* The new column inserted before the columns of the stages before.
record_stats_first(st, name, snapshot) ==
  <<[stage |-> name, slice_stats |-> snapshot]>> \o st

\* self._filter_stats[stage] = self.slice_stats: a new column, after the
\* columns of the stages before.
record_stats(st, name, snapshot) ==
  Append(st, [stage |-> name, slice_stats |-> snapshot])

\* The stage and the filter filter_slices is at.
current_stage == filter_stages(variant)[stage]

current_filt == current_stage.filters[filt]

\* One turn of the inner loop of filter_slices for the filter f, and, when
\* f is the last filter of its stage, the statistics of the stage:
\* self._filter_stats[stage] = self.slice_stats.
filter_slices_step(f) ==
  /\ pc = "filtering"
  /\ current_filt = f
  /\ LET e == raises(variant, f, slices, columns)
     IN IF e # NoError
        THEN /\ pc' = "error"
             /\ error' = e
             /\ UNCHANGED <<slices, stats, stage, filt, last_filt, before>>
        ELSE \E out \in call_filter(variant, f, slices) :
               /\ slices' = out
               /\ before' = slices
               /\ last_filt' = f
               /\ IF filt < Len(current_stage.filters)
                  THEN /\ filt' = filt + 1
                       /\ UNCHANGED <<stats, stage, pc, error>>
                  ELSE LET se == slice_stats_raises(variant, columns)
                       IN IF se # NoError
                          THEN /\ pc' = "error"
                               /\ error' = se
                               /\ UNCHANGED <<stats, stage, filt>>
                          ELSE /\ stats' = record_stats(stats, current_stage.stage,
                                                        slice_stats(variant, out))
                               /\ filt' = 1
                               /\ stage' = stage + 1
                               /\ pc' = IF stage = Len(filter_stages(variant))
                                        THEN "done" ELSE "filtering"
                               /\ UNCHANGED error
  /\ UNCHANGED <<input, columns, variant, stages_arg>>

call_get_raw_slices == filter_slices_step("get_raw_slices")

call_remove_unmapped_slices == filter_slices_step("remove_unmapped_slices")

call_remove_orphan_slices == filter_slices_step("remove_orphan_slices")

call_remove_duplicate_re_frags == filter_slices_step("remove_duplicate_re_frags")

call_remove_slices_without_re_frag_assigned ==
  filter_slices_step("remove_slices_without_re_frag_assigned")

call_remove_duplicate_slices == filter_slices_step("remove_duplicate_slices")

call_remove_duplicate_slices_pe == filter_slices_step("remove_duplicate_slices_pe")

call_remove_excluded_slices == filter_slices_step("remove_excluded_slices")

call_remove_blacklisted_slices == filter_slices_step("remove_blacklisted_slices")

call_remove_non_reporter_fragments ==
  filter_slices_step("remove_non_reporter_fragments")

call_remove_multi_capture_fragments ==
  filter_slices_step("remove_multi_capture_fragments")

call_remove_multicapture_reporters ==
  filter_slices_step("remove_multicapture_reporters")

call_remove_slices_with_one_reporter ==
  filter_slices_step("remove_slices_with_one_reporter")

call_remove_non_capture_fragments ==
  filter_slices_step("remove_non_capture_fragments")

call_remove_dual_capture_fragments ==
  filter_slices_step("remove_dual_capture_fragments")

Next ==
  \/ SliceFilter_direct_init
  \/ CCSliceFilter_init
  \/ TriCSliceFilter_init
  \/ TiledCSliceFilter_init
  \/ call_get_raw_slices
  \/ call_remove_unmapped_slices
  \/ call_remove_orphan_slices
  \/ call_remove_duplicate_re_frags
  \/ call_remove_slices_without_re_frag_assigned
  \/ call_remove_duplicate_slices
  \/ call_remove_duplicate_slices_pe
  \/ call_remove_excluded_slices
  \/ call_remove_blacklisted_slices
  \/ call_remove_non_reporter_fragments
  \/ call_remove_multi_capture_fragments
  \/ call_remove_multicapture_reporters
  \/ call_remove_slices_with_one_reporter
  \/ call_remove_non_capture_fragments
  \/ call_remove_dual_capture_fragments

Spec == Init /\ [][Next]_vars

\* ------------------------------------------------------------------ claims
SliceNames(t) == {t[i].slice_name : i \in 1..Len(t)}

Parents(t) == {t[i].parent_read : i \in 1..Len(t)}

\* The capture sites of the slices g: the values of capture other than ".".
CaptureSites(g) == {g[i].capture : i \in 1..Len(g)} \ {"."}

\* C1: whatever filter returned last, in whatever variant, the slice names
\* of the table it left are among those of the table it was called on, and
\* the table has no more rows.
C1_MonotonicShrinkage ==
  last_filt # "" =>
    /\ SliceNames(slices) \subseteq SliceNames(before)
    /\ Len(slices) <= Len(before)

\* C1 witness: remove_dual_capture_fragments has removed rows and kept rows.
C1_Witness ==
  /\ last_filt = "remove_dual_capture_fragments"
  /\ Len(slices) < Len(before)
  /\ Len(slices) > 0

\* C2: after remove_multi_capture_fragments every fragment with two or more
\* capture sites is gone, every fragment with exactly one has all its
\* slices, and every fragment left has exactly one capture site.
C2_ExactlyOneCaptureSite ==
  last_filt = "remove_multi_capture_fragments" =>
    /\ \A p \in Parents(before) :
         LET n == Cardinality(CaptureSites(Group(before, p)))
         IN /\ n >= 2 => Group(slices, p) = << >>
            /\ n = 1 => Group(slices, p) = Group(before, p)
    /\ \A p \in Parents(slices) :
         Cardinality(CaptureSites(Group(slices, p))) = 1

\* The tables that applying the filters fs[k], fs[k+1], ... of variant v in
\* order to table t can give; none if one of them raises.
RECURSIVE apply_filters(_, _, _, _, _)
apply_filters(v, fs, k, t, cols) ==
  IF k > Len(fs) THEN {t}
  ELSE IF raises(v, fs[k], t, cols) # NoError THEN {}
  ELSE UNION {apply_filters(v, fs, k + 1, out, cols) : out \in call_filter(v, fs[k], t)}

\* filter_slices has just completed a stage.
StageCompleted == pc \in {"filtering", "done"} /\ filt = 1 /\ stage > 1

completed_stage == filter_stages(variant)[stage - 1]

\* Applying the filters of the stage just completed to the table it left
\* gives that table again.
StageFixedPoint ==
  apply_filters(variant, completed_stage.filters, 1, slices, columns) = {slices}

\* C3 as claimed: every completed stage of every variant has left a table
\* that its own filters, applied again in order, do not change.
C3_StageIdempotent == StageCompleted => StageFixedPoint

\* C3 amended: every completed stage has left a table that its own filters
\* do not change, except the stage contains_capture_and_reporter of
\* CCSliceFilter.
C3_StageIdempotentAmended ==
  ( /\ StageCompleted
    /\ ~( /\ variant = "CCSliceFilter"
          /\ completed_stage.stage = "contains_capture_and_reporter" ) )
  => StageFixedPoint

\* C3 witness: CCSliceFilter has completed duplicate_filtered, the stage
\* has removed slices and left some.
C3_Witness ==
  /\ StageCompleted
  /\ variant = "CCSliceFilter"
  /\ completed_stage.stage = "duplicate_filtered"
  /\ stats[5].slice_stats.unique_slices < stats[4].slice_stats.unique_slices
  /\ Len(slices) > 0

AllZero(rec) == \A k \in DOMAIN rec : rec[k] = 0

\* C4: on a table of no rows with every column, no variant raises, every
\* statistic recorded for a stage is 0, and at the end there is a record
\* for every stage and no reporter and no fragment.
C4_EmptyInput ==
  (input = << >> /\ columns = AllColumns /\ variant \in Variants) =>
    /\ pc # "error"
    /\ \A i \in 1..Len(stats) : AllZero(stats[i].slice_stats)
    /\ pc = "done" =>
         /\ Len(stats) = Len(filter_stages(variant))
         /\ reporters(slices) = << >>
         /\ fragments(variant, slices) = << >>

\* C5: a variant constructed from a table that lacks a column is in error,
\* the error is a KeyError that names the column, and no filter has run.
C5_SchemaError ==
  (columns # AllColumns /\ variant \in Variants) =>
    /\ pc = "error"
    /\ error.type = "KeyError"
    /\ {error.arg} = AllColumns \ columns
    /\ last_filt = ""

\* The coordinates strings of the fragments frags.
CoordinatesOf(frags) == {frags[i].coordinates : i \in 1..Len(frags)}

\* C6: after remove_duplicate_slices, whatever the permutation drawn, every
\* coordinates string of a fragment of the table before is the coordinates
\* string of exactly one fragment of the table after, and the fragments
\* that are left have all their slices.
C6_OneSurvivorPerCoordinates ==
  last_filt = "remove_duplicate_slices" =>
    LET frags_before == fragments(variant, before)
        frags_after == fragments(variant, slices)
    IN /\ \A c \in CoordinatesOf(frags_before) :
            Cardinality({i \in 1..Len(frags_after) :
                           frags_after[i].coordinates = c}) = 1
       /\ \A p \in Parents(slices) : Group(slices, p) = Group(before, p)

\* C6 witness: remove_duplicate_slices has been applied to two fragments
\* with the same coordinates string.
C6_Witness ==
  /\ last_filt = "remove_duplicate_slices"
  /\ LET frags_before == fragments(variant, before)
     IN /\ Len(frags_before) = 2
        /\ frags_before[1].coordinates = frags_before[2].coordinates
        /\ Len(frags_before[1].coordinates) > 1

\* The coordinates of the slices of parent read p in slice order.
SliceOrderCoordinates(t, p) ==
  Col(sort_values_parent_read_slice(Group(t, p)), "coordinates")

\* C7: remove_duplicate_slices removes a fragment only when a fragment that
\* is left has the same slice coordinates in the same slice order.
C7_DuplicatesShareSliceOrder ==
  last_filt = "remove_duplicate_slices" =>
    \A p \in Parents(before) \ Parents(slices) :
      \E q \in Parents(slices) :
        SliceOrderCoordinates(before, q) = SliceOrderCoordinates(before, p)

\* C8: remove_multicapture_reporters removes exactly the slices with
\* capture_count 0 whose restriction fragment is within n_adjacent of the
\* restriction fragment of a capture slice of the table, of any fragment.
C8_AdjacentReportersRemoved ==
  last_filt = "remove_multicapture_reporters" =>
    LET caps == {i \in 1..Len(before) : before[i].capture # "."}
        near(r) ==
          /\ r.restriction_fragment # NoFragment
          /\ \E c \in caps :
               LET d == r.restriction_fragment[1] - before[c].restriction_fragment[1]
               IN (-n_adjacent) <= d /\ d <= n_adjacent
    IN slices = SelectSeq(before, LAMBDA r : ~(r.capture_count = 0 /\ near(r)))

\* C8 witness: the table held a capture slice on restriction fragment 100,
\* and in another fragment a slice without capture on 101, now removed, and
\* a slice without capture on 103, still there.
C8_Witness ==
  /\ last_filt = "remove_multicapture_reporters"
  /\ \E i, j, k \in 1..Len(before) :
       /\ before[i].capture # "." /\ before[i].restriction_fragment = <<100>>
       /\ before[j].capture_count = 0 /\ before[j].restriction_fragment = <<101>>
       /\ before[j].parent_read # before[i].parent_read
       /\ before[j].slice_name \notin SliceNames(slices)
       /\ before[k].capture_count = 0 /\ before[k].restriction_fragment = <<103>>
       /\ before[k].slice_name \in SliceNames(slices)

\* C9 in a state: one record per completed stage, in the order the stages are
\* declared; when a stage has just completed its record is the statistics
\* of the table; at the end there is a record for every stage.
C9_StatsPerStage ==
  variant # "" =>
    /\ Len(stats) = stage - 1
    /\ \A i \in 1..Len(stats) : stats[i].stage = filter_stages(variant)[i].stage
    /\ StageCompleted => stats[stage - 1].slice_stats = slice_stats(variant, slices)
    /\ pc = "done" => Len(stats) = Len(filter_stages(variant))

\* C9 in a step: no step changes or removes a record.
C9_StatsKept ==
  /\ Len(stats') >= Len(stats)
  /\ \A i \in 1..Len(stats) : stats'[i] = stats[i]

\* C9: filter_stats has one record per completed stage, in declaration
\* order, taken from the table right after the last filter of the stage,
\* and never changed afterwards.
C9_StatsAccumulation == []C9_StatsPerStage /\ [][C9_StatsKept]_vars

\* C9 witness: TiledCSliceFilter is done, and its stage of two filters
\* contains_capture has recorded fewer slices than the stage before and more
\* than none.
C9_Witness ==
  /\ pc = "done"
  /\ variant = "TiledCSliceFilter"
  /\ stats[4].slice_stats.unique_slices < stats[3].slice_stats.unique_slices
  /\ stats[4].slice_stats.unique_slices > 0

\* C10: after remove_orphan_slices every fragment in the table has more
\* than one slice number, and every fragment that had more than one slice
\* has all its slices.
C10_NoOrphans ==
  last_filt = "remove_orphan_slices" =>
    /\ \A p \in Parents(slices) : nunique(Col(Group(slices, p), "slice")) > 1
    /\ \A p \in Parents(before) :
         Len(Group(before, p)) > 1 => Group(slices, p) = Group(before, p)

\* C10 witness: remove_orphan_slices has removed a fragment of one slice
\* and kept a fragment of several.
C10_Witness ==
  /\ last_filt = "remove_orphan_slices"
  /\ \E p \in Parents(before) : Len(Group(before, p)) = 1
  /\ \E p \in Parents(before) : Len(Group(before, p)) > 1

\* The reporter count of the slices g of one fragment: mapped less the
\* slices in exclusion regions, the capture slices and the blacklisted
\* slices, when the fragment has a capture slice; 0 when it has none.
ReporterCount(g) ==
  LET total(c) == Sum(Col(g, c))
  IN IF total("capture_count") > 0
     THEN total("mapped")
            - (total("exclusion_count") + total("capture_count") + total("blacklist"))
     ELSE 0

\* C11: after remove_non_reporter_fragments every fragment of the table
\* before whose reporter count is above 0 has all its slices, every other
\* fragment has none, and every fragment left has a reporter count above 0.
C11_ReporterExistence ==
  last_filt = "remove_non_reporter_fragments" =>
    /\ \A p \in Parents(before) :
         Group(slices, p) = IF ReporterCount(Group(before, p)) > 0
                            THEN Group(before, p) ELSE << >>
    /\ \A p \in Parents(slices) : ReporterCount(Group(slices, p)) > 0

\* C11 witness: remove_non_reporter_fragments has removed a fragment with a
\* capture slice and no reporter and kept a fragment with a reporter.
C11_Witness ==
  /\ last_filt = "remove_non_reporter_fragments"
  /\ \E p \in Parents(before) \ Parents(slices) :
       Sum(Col(Group(before, p), "capture_count")) > 0
  /\ Parents(slices) # {}

\* The stage names of the default mapping of each variant, in order.
DefaultStageNames(v) ==
  CASE v = "CCSliceFilter" ->
         <<"pre-filtering", "mapped", "contains_single_capture",
           "contains_capture_and_reporter", "duplicate_filtered">>
    [] v = "TriCSliceFilter" ->
         <<"pre-filtering", "mapped", "contains_single_capture",
           "contains_capture_and_reporter", "duplicate_filtered", "tric_reporter">>
    [] v = "TiledCSliceFilter" ->
         <<"pre-filtering", "mapped", "not_blacklisted", "contains_capture",
           "duplicate_filtered", "has_reporter">>

\* C14: SliceFilter constructed with None or an empty mapping is in error
\* before any filter has run, with the ValueError "Filter stages not
\* provided" (with the KeyError of the column check, which comes first, when
\* the table lacks a required column); a variant constructed without a
\* mapping never has that ValueError, and the stages it completes are the
\* stages of its default mapping, in order.
C14_StagesRequired ==
  /\ (variant = "SliceFilter" /\ stages_arg \in {"None", "empty"}) =>
       /\ pc = "error"
       /\ error = IF check_required_columns_present(columns) # NoError
                  THEN check_required_columns_present(columns)
                  ELSE Error("ValueError", "Filter stages not provided")
       /\ last_filt = ""
       /\ stats = << >>
  /\ (variant \in Variants /\ stages_arg = "None") =>
       /\ error.type # "ValueError"
       /\ \A i \in 1..Len(stats) : stats[i].stage = DefaultStageNames(variant)[i]
       /\ pc = "done" => Len(stats) = Len(DefaultStageNames(variant))

\* C14 witness: SliceFilter constructed with an empty mapping on a table
\* with every column has raised the ValueError.
C14_Witness ==
  /\ variant = "SliceFilter"
  /\ stages_arg = "empty"
  /\ columns = AllColumns
  /\ Len(input) > 0
  /\ error.type = "ValueError"

\* C12: after remove_slices_with_one_reporter every fragment of the table
\* before whose reporter count is 2 or more has all its slices and every
\* fragment whose reporter count is 1 or less has none; when the pipeline of
\* TriCSliceFilter is done every fragment left has a reporter count above 1.
C12_TripletThreshold ==
  /\ last_filt = "remove_slices_with_one_reporter" =>
       \A p \in Parents(before) :
         Group(slices, p) = IF ReporterCount(Group(before, p)) >= 2
                            THEN Group(before, p) ELSE << >>
  /\ (variant = "TriCSliceFilter" /\ pc = "done") =>
       \A p \in Parents(slices) : ReporterCount(Group(slices, p)) > 1

\* C12 witness: the pipeline of TriCSliceFilter is done, its last filter
\* has removed a fragment with exactly one reporter and kept a fragment
\* with exactly two.
C12_Witness ==
  /\ variant = "TriCSliceFilter"
  /\ pc = "done"
  /\ last_filt = "remove_slices_with_one_reporter"
  /\ \E p \in Parents(before) \ Parents(slices) :
       ReporterCount(Group(before, p)) = 1
  /\ \E p \in Parents(slices) : ReporterCount(Group(slices, p)) = 2

\* C13: after remove_dual_capture_fragments of TiledCSliceFilter every
\* fragment of the table before with more than one capture site has no
\* slice left and every other fragment has all its slices; called, as the
\* stage contains_capture does, after remove_non_capture_fragments, it
\* leaves only fragments with exactly one capture site.
C13_DualCaptureRemoved ==
  last_filt = "remove_dual_capture_fragments" =>
    /\ \A p \in Parents(before) :
         Group(slices, p) = IF Cardinality(CaptureSites(Group(before, p))) > 1
                            THEN << >> ELSE Group(before, p)
    /\ \A p \in Parents(slices) :
         Cardinality(CaptureSites(Group(slices, p))) = 1

\* C13 witness: remove_dual_capture_fragments has removed a fragment with
\* two capture sites and kept a fragment with a capture slice and a
\* reporter.
C13_Witness ==
  /\ last_filt = "remove_dual_capture_fragments"
  /\ \E p \in Parents(before) \ Parents(slices) :
       Cardinality(CaptureSites(Group(before, p))) = 2
  /\ \E p \in Parents(slices) :
       \E i, j \in 1..Len(slices) :
         /\ slices[i].parent_read = p /\ slices[i].capture # "."
         /\ slices[j].parent_read = p /\ slices[j].capture = "."

\* C15 in a state: every row of self.slices is a row of the caller's table,
\* equal in every column to the row of that slice_name, and no slice_name
\* is there twice.
C15_RowsFromInput ==
  /\ \A i \in 1..Len(slices) :
       \E j \in 1..Len(input) :
         /\ input[j].slice_name = slices[i].slice_name
         /\ input[j] = slices[i]
  /\ Cardinality(SliceNames(slices)) = Len(slices)

\* C15 in a step: construction and filter_slices leave the caller's table,
\* rows and columns, as it was.
C15_InputKept == input' = input /\ columns' = columns

\* C15: at every point of construction and filter_slices the rows held are
\* rows of the caller's table with their values, and the caller's table is
\* never changed.
C15_OnlyRemovesRows == []C15_RowsFromInput /\ [][C15_InputKept]_vars

\* C15 witness: a pipeline is done on an unsorted table of the caller, has
\* removed rows and kept rows.
C15_Witness ==
  /\ pc = "done"
  /\ input \in UnsortedTables
  /\ Len(slices) > 0
  /\ Len(slices) < Len(input)

\* The values of column c among the slices g, the sentinel sent left out.
NonSentinel(g, c, sent) == {g[i][c] : i \in 1..Len(g)} \ {sent}

\* C16: for every fragment of the fragments view of CCSliceFilter,
\* unique_capture_sites, unique_exclusion_sites and
\* unique_restriction_fragments are the numbers of distinct values other than
\* "." of capture, exclusion and restriction_fragment among its slices.
C16_UniqueCounts ==
  (variant \in {"CCSliceFilter", "TriCSliceFilter"} /\ columns = AllColumns) =>
    LET frags == CCSliceFilter_fragments(slices)
    IN \A i \in 1..Len(frags) :
         LET g == Group(slices, frags[i].parent_read)
         IN /\ frags[i].unique_capture_sites =
                 Cardinality(NonSentinel(g, "capture", "."))
            /\ frags[i].unique_exclusion_sites =
                 Cardinality(NonSentinel(g, "exclusion", "."))
            /\ frags[i].unique_restriction_fragments =
                 Cardinality(NonSentinel(g, "restriction_fragment", NoFragment))

\* The slices of parent read p in slice order.
InSliceOrder(t, p) == sort_values_parent_read_slice(Group(t, p))

\* The start of the first slice and the end of the last slice of parent
\* read p, by slice number.
SliceOrderEnds(t, p) ==
  LET g == InSliceOrder(t, p) IN <<g[1].start, g[Len(g)].end>>

\* Parent read p has an unflashed slice.
IsUnflashed(t, p) == \E i \in 1..Len(t) : t[i].parent_read = p /\ t[i].pe = "unflashed"

\* Parent read q comes before parent read p in table t.
Earlier(t, q, p) ==
  \E i \in 1..Len(t) :
    /\ t[i].parent_read = q
    /\ \A j \in 1..i : t[j].parent_read # p

\* C17: remove_duplicate_slices_pe removes exactly the unflashed fragments
\* whose pair (start of the first slice, end of the last slice, by slice
\* number) is the pair of an earlier unflashed fragment; the other
\* fragments, flashed ones among them, keep all their slices.
C17_PairedEndDuplicates ==
  last_filt = "remove_duplicate_slices_pe" =>
    \A p \in Parents(before) :
      LET dup == /\ IsUnflashed(before, p)
                 /\ \E q \in Parents(before) :
                      /\ IsUnflashed(before, q)
                      /\ Earlier(before, q, p)
                      /\ SliceOrderEnds(before, q) = SliceOrderEnds(before, p)
      IN Group(slices, p) = IF dup THEN << >> ELSE Group(before, p)

\* C18: after remove_duplicate_re_frags no two rows have the same
\* (parent_read, restriction_fragment), and the rows left are, in order, the
\* rows of the table before that have the lowest slice number among the rows
\* of their parent read on their restriction fragment; so a row whose pair
\* was in one row only is left.
C18_FirstPerRestrictionFragment ==
  last_filt = "remove_duplicate_re_frags" =>
    /\ \A i, j \in 1..Len(slices) :
         ( /\ slices[i].parent_read = slices[j].parent_read
           /\ slices[i].restriction_fragment = slices[j].restriction_fragment )
         => i = j
    /\ slices = SelectSeq(before, LAMBDA r :
                  \A k \in 1..Len(before) :
                    ( /\ before[k].parent_read = r.parent_read
                      /\ before[k].restriction_fragment = r.restriction_fragment )
                    => r.slice <= before[k].slice)

\* C18 witness: on a table the caller gave out of order,
\* remove_duplicate_re_frags has removed the later slice of a restriction
\* fragment met twice in a parent read and kept a slice of that parent read
\* on another restriction fragment.
C18_Witness ==
  /\ last_filt = "remove_duplicate_re_frags"
  /\ input \in UnsortedTables
  /\ \E i, j, k \in 1..Len(before) :
       /\ before[i].parent_read = before[j].parent_read
       /\ before[i].restriction_fragment = before[j].restriction_fragment
       /\ before[i].slice < before[j].slice
       /\ before[j].slice_name \notin SliceNames(slices)
       /\ before[i].slice_name \in SliceNames(slices)
       /\ before[k].parent_read = before[i].parent_read
       /\ before[k].restriction_fragment # before[i].restriction_fragment
       /\ before[k].slice_name \in SliceNames(slices)

\* The count of the row (c, k) of a cis/trans table, 0 when it has no such
\* row.
CountOf(table, c, k) ==
  LET rows == {row \in table : row.capture = c /\ row.cis_trans = k}
  IN IF rows = {} THEN 0 ELSE (CHOOSE row \in rows : TRUE).count

\* The pairs (capture slice of site c, reporter slice) of table t that
\* share a parent read.
CaptureReporterPairs(t, c) ==
  { <<i, j>> \in (1..Len(t)) \X (1..Len(t)) :
      /\ t[i].capture = c
      /\ t[j].capture = "."
      /\ t[i].parent_read = t[j].parent_read }

\* C19: in CCSliceFilter every slice is in exactly one of reporters and
\* captures, and for every capture site the cis and trans counts of
\* cis_or_trans_stats add up to the number of pairs of a capture slice of
\* the site and a reporter slice of the same parent read, cis being the
\* number of those pairs on one chromosome.
C19_CisTransCounts ==
  (variant \in {"CCSliceFilter", "TriCSliceFilter"} /\ columns = AllColumns) =>
    LET table == CCSliceFilter_cis_or_trans_stats(slices)
    IN /\ SliceNames(reporters(slices)) \cup SliceNames(captures(slices))
            = SliceNames(slices)
       /\ SliceNames(reporters(slices)) \cap SliceNames(captures(slices)) = {}
       /\ Len(reporters(slices)) + Len(captures(slices)) = Len(slices)
       /\ \A c \in CaptureSites(slices) :
            LET pairs == CaptureReporterPairs(slices, c)
            IN /\ CountOf(table, c, "cis") + CountOf(table, c, "trans")
                    = Cardinality(pairs)
               /\ CountOf(table, c, "cis")
                    = Cardinality({pr \in pairs :
                        slices[pr[1]].chrom = slices[pr[2]].chrom})
       /\ \A row \in table : row.capture \in CaptureSites(slices) /\ row.count > 0

\* C19 witness: CCSliceFilter holds a fragment with a capture slice and no
\* reporter, and its slices give a cis count and a trans count.
C19_Witness ==
  /\ variant = "CCSliceFilter"
  /\ pc = "filtering"
  /\ \E p \in Parents(slices) : /\ CaptureSites(Group(slices, p)) # {}
                                /\ reporters(Group(slices, p)) = << >>
  /\ \E row \in CCSliceFilter_cis_or_trans_stats(slices) : row.cis_trans = "cis"
  /\ \E row \in CCSliceFilter_cis_or_trans_stats(slices) : row.cis_trans = "trans"

\* The anchor of capture site c in parent read p of table t: the index of
\* the first slice of p with capture c.
Anchor(t, p, c) ==
  CHOOSE i \in 1..Len(t) :
    /\ t[i].parent_read = p /\ t[i].capture = c
    /\ \A j \in 1..(i - 1) : ~(t[j].parent_read = p /\ t[j].capture = c)

\* The pairs (anchor of site c in a fragment, another slice of that
\* fragment) of table t.
PseudoReporters(t, c) ==
  { <<a, j>> \in (1..Len(t)) \X (1..Len(t)) :
      /\ t[a].capture = c
      /\ a = Anchor(t, t[a].parent_read, c)
      /\ t[j].parent_read = t[a].parent_read
      /\ j # a }

\* C20: in cis_or_trans_stats of TiledCSliceFilter, for every capture site,
\* every slice of a fragment with a slice of the site, other than the
\* first slice of the site in the fragment (the anchor), is counted once:
\* in cis when it is on the chromosome of the anchor of its fragment, in
\* trans when it is not.
C20_TiledCisTrans ==
  (variant = "TiledCSliceFilter" /\ columns = AllColumns) =>
    LET table == TiledCSliceFilter_cis_or_trans_stats(slices)
    IN \A c \in CaptureSites(slices) :
         LET pseudo == PseudoReporters(slices, c)
             cis == {pr \in pseudo : slices[pr[2]].chrom = slices[pr[1]].chrom}
         IN /\ CountOf(table, c, "cis") = Cardinality(cis)
            /\ CountOf(table, c, "trans") = Cardinality(pseudo \ cis)

\* Row a comes before row b in (parent_read, slice) order.
RowBefore(a, b) ==
  \/ RankIn(ParentReads, a.parent_read) < RankIn(ParentReads, b.parent_read)
  \/ (a.parent_read = b.parent_read /\ a.slice < b.slice)

\* C21: in every state from construction to the end of filter_slices, in
\* every variant and whatever the order of the rows the caller gave, every
\* row of self.slices comes before the next in (parent_read, slice) order.
C21_SortedByParentReadSlice ==
  \A i \in 1..(Len(slices) - 1) : RowBefore(slices[i], slices[i + 1])

\* C21 witness: on a table of two parent reads the caller gave out of
\* order, TiledCSliceFilter has run remove_dual_capture_fragments, after
\* rows were removed, and several rows are left.
C21_Witness ==
  /\ input \in UnsortedTables
  /\ \E i \in 1..(Len(input) - 1) : ~RowBefore(input[i], input[i + 1])
  /\ Cardinality(Parents(input)) = 2
  /\ last_filt = "remove_dual_capture_fragments"
  /\ Len(slices) < Len(input)
  /\ Len(slices) > 1

\* In table t capture_count is above 0 exactly in the slices that name a
\* capture site.
CaptureAnnotated(t) ==
  \A i \in 1..Len(t) : (t[i].capture_count > 0) <=> (t[i].capture # ".")

\* In table t mapped is 0 or 1 and capture_count is above 0 exactly in the
\* slices that name a capture site.
ConsistentAnnotation(t) ==
  /\ \A i \in 1..Len(t) : t[i].mapped \in {0, 1}
  /\ CaptureAnnotated(t)

\* C22: when the default pipeline of CCSliceFilter is done on a table with
\* consistent annotation, every fragment left has a capture slice and a
\* slice with capture ".", its slices name exactly one capture site, and
\* every slice left is mapped, outside exclusion regions, not blacklisted
\* and on a restriction fragment.
C22_CaptureAndReporterAtEnd ==
  (variant = "CCSliceFilter" /\ pc = "done" /\ ConsistentAnnotation(input)) =>
    /\ \A p \in Parents(slices) :
         /\ captures(Group(slices, p)) # << >>
         /\ reporters(Group(slices, p)) # << >>
         /\ Cardinality(CaptureSites(Group(slices, p))) = 1
    /\ \A i \in 1..Len(slices) :
         /\ slices[i].mapped = 1
         /\ slices[i].exclusion_count = 0
         /\ slices[i].blacklist = 0
         /\ slices[i].restriction_fragment # NoFragment

\* C22 witness: the pipeline of CCSliceFilter is done on a table with
\* consistent annotation, the stage contains_capture_and_reporter left two
\* fragments, the stage duplicate_filtered removed one of them and the
\* other is left at the end.
C22_Witness ==
  /\ variant = "CCSliceFilter"
  /\ pc = "done"
  /\ ConsistentAnnotation(input)
  /\ stats[4].slice_stats.unique_fragments = 2
  /\ stats[5].slice_stats.unique_fragments = 1
  /\ Len(slices) > 1

\* C23: when the default pipeline of TiledCSliceFilter is done on a table
\* whose capture_count is above 0 exactly in the slices that name a capture
\* site, every fragment left has a summed capture_count above 0 and more
\* than one slice.
C23_TiledCaptureAtEnd ==
  (variant = "TiledCSliceFilter" /\ pc = "done" /\ CaptureAnnotated(input)) =>
    \A p \in Parents(slices) :
      /\ Sum(Col(Group(slices, p), "capture_count")) > 0
      /\ Len(Group(slices, p)) > 1

\* The filters of the stages sts from stage k on, in the order filter_slices
\* calls them.
RECURSIVE FiltersFrom(_, _)
FiltersFrom(sts, k) ==
  IF k > Len(sts) THEN << >> ELSE sts[k].filters \o FiltersFrom(sts, k + 1)

\* The tables the default pipeline of CCSliceFilter can end with on the
\* input, one for each outcome of the permutation of remove_duplicate_slices.
CCSliceFilter_outcomes ==
  apply_filters("CCSliceFilter", FiltersFrom(CCSliceFilter_filter_stages, 1), 1,
                sort_values_parent_read_slice(input), columns)

\* C24: when the default pipeline of CCSliceFilter is done, every table it
\* could have ended with on the same input under another outcome of the
\* permutation of remove_duplicate_slices has as many slices and fragments
\* as the table held and gives the same slice_stats, the row of
\* filter_stats of the only stage run after the permutation.
C24_PermutationIndependent ==
  (variant = "CCSliceFilter" /\ pc = "done") =>
    \A t \in CCSliceFilter_outcomes :
      /\ Len(t) = Len(slices)
      /\ Cardinality(Parents(t)) = Cardinality(Parents(slices))
      /\ slice_stats(variant, t) = stats[Len(stats)].slice_stats

====
